---- MODULE Spec2Model ----
(***************************************************************************)
(* A model of munkilib/powermgr.py: the power-source queries, the sleep    *)
(* prevention assertion functions and the Caffeinator object.              *)
(*                                                                         *)
(* The host (IOKit), the preference store, the file system and the console *)
(* user are the environment: their answers are inputs drawn from small     *)
(* sets. Every call records what it did (its log entries and host calls,   *)
(* in order) and how it ended in the variable call.                        *)
(***************************************************************************)
EXTENDS Integers, Sequences, FiniteSets, TLC

VARIABLES
    hostAssertions, \* the host's assertions: id -> who holds it
    call,           \* the last call of a module function: inputs, events, outcome
    handles,        \* the Caffeinator objects
    power           \* the host's power sources, as the IOPS* functions report them

vars == <<hostAssertions, call, handles, power>>

(***************************************************************************)
(* Bounds of the model.                                                    *)
(***************************************************************************)
MaxId == 2
NumHandles == 2
MaxDel == 2
MaxSources == 2

(***************************************************************************)
(* Python values, tagged by type, and the Python notions the code uses.    *)
(***************************************************************************)
PyNone == [t |-> "None"]
PyInt(n) == [t |-> "int", v |-> n]
PyStr(s) == [t |-> "str", v |-> s]
PyBool(b) == [t |-> "bool", v |-> b]
PyDict(f) == [t |-> "dict", v |-> f]
PyList(s) == [t |-> "list", v |-> s]

\* bool(x): None, 0, "" and False are falsy
Truthy(x) ==
    CASE x.t = "None" -> FALSE
      [] x.t = "int"  -> x.v # 0
      [] x.t = "str"  -> x.v # ""
      [] x.t = "bool" -> x.v
      [] OTHER        -> TRUE

\* x == y
PyEq(x, y) == x.t = y.t /\ x = y

\* how a call ends
Return(v) == [raised |-> FALSE, value |-> v]
Raise(e) == [raised |-> TRUE, exc |-> e]

(***************************************************************************)
(* Events of a call, in program order.                                     *)
(***************************************************************************)
display_info(msg) == [kind |-> "log", level |-> "info", msg |-> msg]
display_error(msg) == [kind |-> "log", level |-> "error", msg |-> msg]
IOPMAssertionCreateWithName(type, level, reason, errcode, assertID) ==
    [kind |-> "host", fn |-> "IOPMAssertionCreateWithName", type |-> type,
     level |-> level, reason |-> reason, errcode |-> errcode, assertID |-> assertID]
IOPMAssertionRelease(id) ==
    [kind |-> "host", fn |-> "IOPMAssertionRelease", id |-> id]

(***************************************************************************)
(* The host's assertion table.                                             *)
(***************************************************************************)
Ids == 0..MaxId
Handles == 1..NumHandles
Free == [k |-> "free"]
Caller == [k |-> "caller"]
Handle(h) == [k |-> "handle", h |-> h]

\* the error codes the host returns: 0 is success, IOReturn errors are negative
ErrCodes == {0, 1, -1}

RECURSIVE HostAfter(_, _, _)
\* the host's table after the host calls among events, made by owner
HostAfter(host, events, owner) ==
    IF events = <<>> THEN host
    ELSE LET e == Head(events)
             h2 == IF e.kind = "host" /\ e.fn = "IOPMAssertionCreateWithName"
                      /\ e.errcode = 0
                   THEN [host EXCEPT ![e.assertID] = owner]
                   ELSE IF e.kind = "host" /\ e.fn = "IOPMAssertionRelease"
                           /\ e.id.t = "int" /\ e.id.v \in Ids
                   THEN [host EXCEPT ![e.id.v] = Free]
                   ELSE host
         IN  HostAfter(h2, Tail(events), owner)

(***************************************************************************)
(* assertSleepPrevention                                                   *)
(***************************************************************************)
Prefs == {PyBool(TRUE), PyBool(FALSE), PyNone}
Users == {"loginwindow", "alice"}
Reasons == {PyNone, PyStr(""), PyStr("Installing updates")}

\* a slip: the marker file is not looked at
prevent_display_sleep_NoFlag(pref, flagExists, user) ==
    Truthy(pref) /\ user = "loginwindow"

prevent_display_sleep(pref, flagExists, user) ==
    Truthy(pref) /\ flagExists /\ user = "loginwindow"

kIOPMAssertionType(pds) ==
    IF pds THEN "NoDisplaySleepAssertion" ELSE "NoIdleSleepAssertion"

kIOPMAssertionLevelOn == 255

EffectiveReason(reason) ==
    IF ~Truthy(reason) THEN PyStr("Munki is installing software") ELSE reason

SuspendedMsg ==
    <<"Display sleep suspended due to SuspendDisplaySleepDuringBootstrap preference enabled, bootstrap flag set, and currently at loginwindow.">>
PreventingMsg(pds, reason) ==
    <<"Preventing", IF pds THEN "display" ELSE "idle", "sleep due to:", reason.v>>
FailedMsg == <<"Failed to create sleep prevention assertion.">>
AllowingMsg == <<"Allowing idle sleep">>

\* a slip: the entry is logged after the host call, not before it
assertSleepPreventionEvents_LogAfter(pref, flagExists, user, reason, errcode, assertID) ==
    LET pds == prevent_display_sleep(pref, flagExists, user)
        r == EffectiveReason(reason)
    IN  (IF pds THEN <<display_info(SuspendedMsg)>> ELSE <<>>)
        \o <<IOPMAssertionCreateWithName(kIOPMAssertionType(pds),
                                         kIOPMAssertionLevelOn, r, errcode, assertID),
             display_info(PreventingMsg(pds, r))>>
        \o (IF Truthy(PyInt(errcode)) THEN <<display_error(FailedMsg)>> ELSE <<>>)

\* what assertSleepPrevention does, in order; errcode and assertID are the host's answer
assertSleepPreventionEvents(pref, flagExists, user, reason, errcode, assertID) ==
    LET pds == prevent_display_sleep(pref, flagExists, user)
        r == EffectiveReason(reason)
    IN  (IF pds THEN <<display_info(SuspendedMsg)>> ELSE <<>>)
        \o <<display_info(PreventingMsg(pds, r)),
             IOPMAssertionCreateWithName(kIOPMAssertionType(pds),
                                         kIOPMAssertionLevelOn, r, errcode, assertID)>>
        \o (IF Truthy(PyInt(errcode)) THEN <<display_error(FailedMsg)>> ELSE <<>>)

\* a slip: only positive error codes are taken as errors
assertSleepPreventionResult_Positive(errcode, assertID) ==
    IF errcode > 0 THEN PyNone ELSE PyInt(assertID)

\* what assertSleepPrevention returns
assertSleepPreventionResult(errcode, assertID) ==
    IF Truthy(PyInt(errcode)) THEN PyNone ELSE PyInt(assertID)

(***************************************************************************)
(* removeSleepPreventionAssertion                                          *)
(***************************************************************************)
\* a slip: the guard is missing
removeSleepPreventionAssertionEvents_NoGuard(assertion_id) ==
    <<display_info(AllowingMsg), IOPMAssertionRelease(assertion_id)>>

removeSleepPreventionAssertionEvents(assertion_id) ==
    IF Truthy(assertion_id)
    THEN <<display_info(AllowingMsg), IOPMAssertionRelease(assertion_id)>>
    ELSE <<>>

\* is the id one the host holds an assertion for
Held(host, id) == id.t = "int" /\ id.v \in Ids /\ host[id.v] # Free

(***************************************************************************)
(* The module functions called directly.                                   *)
(***************************************************************************)
NoCall == [op |-> "none", events |-> <<>>]

\* the host succeeds only with an id it has not handed out
HostAnswerOk(host, errcode, assertID) == errcode = 0 => host[assertID] = Free

assertSleepPrevention(pref, flagExists, user, reason, errcode, assertID) ==
    /\ HostAnswerOk(hostAssertions, errcode, assertID)
    /\ LET ev == assertSleepPreventionEvents(pref, flagExists, user, reason,
                                             errcode, assertID)
       IN  /\ call' = [op |-> "assertSleepPrevention", pref |-> pref,
                       flagExists |-> flagExists, user |-> user, reason |-> reason,
                       errcode |-> errcode, assertID |-> assertID, events |-> ev,
                       outcome |-> Return(assertSleepPreventionResult(errcode, assertID))]
           /\ hostAssertions' = HostAfter(hostAssertions, ev, Caller)
    /\ UNCHANGED <<handles, power>>

removeSleepPreventionAssertion(assertion_id) ==
    /\ LET ev == removeSleepPreventionAssertionEvents(assertion_id)
       IN  /\ call' = [op |-> "removeSleepPreventionAssertion",
                       assertion_id |-> assertion_id,
                       held |-> Held(hostAssertions, assertion_id),
                       events |-> ev, outcome |-> Return(PyNone)]
           /\ hostAssertions' = HostAfter(hostAssertions, ev, Caller)
    /\ UNCHANGED <<handles, power>>

CallAssert ==
    \E pref \in Prefs, flagExists \in BOOLEAN, user \in Users, reason \in Reasons,
       errcode \in ErrCodes, assertID \in Ids :
        assertSleepPrevention(pref, flagExists, user, reason, errcode, assertID)

CallRemove ==
    \E assertion_id \in {PyNone} \cup {PyInt(i) : i \in Ids} :
        removeSleepPreventionAssertion(assertion_id)

\* a Caffeinator not yet constructed; created, dels, releases, errors and foreign
\* record its history: whether its create call succeeded, how often __del__ ran,
\* the host release calls and error entries made on its behalf, and the
\* releases that hit an assertion another object held
Unborn == [pc |-> "unborn", assertion_id |-> PyNone, created |-> FALSE,
           dels |-> 0, releases |-> 0, errors |-> 0, foreign |-> 0]
NoHandles == [h \in Handles |-> Unborn]
NoPower == [blob |-> PyNone, providing |-> PyNone, sources |-> PyNone]

Init ==
    /\ hostAssertions = [i \in Ids |-> Free]
    /\ call = NoCall
    /\ handles = NoHandles
    /\ power = NoPower

Next == CallAssert \/ CallRemove

Spec == Init /\ [][Next]_vars
(***************************************************************************)
(* Reading a call's events.                                                *)
(***************************************************************************)
IsInfo(e) == e.kind = "log" /\ e.level = "info"
IsError(e) == e.kind = "log" /\ e.level = "error"
IsCreate(e) == e.kind = "host" /\ e.fn = "IOPMAssertionCreateWithName"
IsRelease(e) == e.kind = "host" /\ e.fn = "IOPMAssertionRelease"
IsHost(e) == e.kind = "host"
IsLog(e) == e.kind = "log"
IsSuspended(e) == IsInfo(e) /\ e.msg = SuspendedMsg
IsPreventing(e) == IsInfo(e) /\ e.msg[1] = "Preventing"
Is(what, e) ==
    CASE what = "IsInfo" -> IsInfo(e)
      [] what = "IsError" -> IsError(e)
      [] what = "IsCreate" -> IsCreate(e)
      [] what = "IsRelease" -> IsRelease(e)
      [] what = "IsHost" -> IsHost(e)
      [] what = "IsLog" -> IsLog(e)
      [] what = "IsSuspended" -> IsSuspended(e)
      [] what = "IsPreventing" -> IsPreventing(e)
\* the places in events of the events of one sort
Indices(events, what) == {i \in 1..Len(events) : Is(what, events[i])}

(***************************************************************************)
(* Caffeinator                                                             *)
(***************************************************************************)
\* __init__: self.assertion_id = assertSleepPrevention(reason)
CaffeinatorInit(h, pref, flagExists, user, reason, errcode, assertID) ==
    /\ handles[h].pc = "unborn"
    /\ HostAnswerOk(hostAssertions, errcode, assertID)
    /\ LET ev == assertSleepPreventionEvents(pref, flagExists, user, reason,
                                             errcode, assertID)
       IN  /\ handles' = [handles EXCEPT ![h] =
                  [pc |-> "armed",
                   assertion_id |-> assertSleepPreventionResult(errcode, assertID),
                   created |-> (errcode = 0),
                   dels |-> 0, releases |-> 0,
                   errors |-> Cardinality(Indices(ev, "IsError")),
                   foreign |-> 0]]
           /\ hostAssertions' = HostAfter(hostAssertions, ev, Handle(h))
    /\ UNCHANGED <<call, power>>

\* __del__: removeSleepPreventionAssertion(self.assertion_id); the attribute is
\* left as it is. The interpreter runs __del__ when the object is collected; a
\* caller can also invoke it, and a resurrected object can be finalized again.
CaffeinatorDel(h) ==
    /\ handles[h].pc \in {"armed", "released"}
    /\ handles[h].dels < MaxDel
    /\ LET ev == removeSleepPreventionAssertionEvents(handles[h].assertion_id)
           rel == Indices(ev, "IsRelease")
           hit == {i \in rel : Held(hostAssertions, ev[i].id)
                                /\ hostAssertions[ev[i].id.v] # Handle(h)}
       IN  /\ handles' = [handles EXCEPT ![h].pc = "released",
                                         ![h].dels = @ + 1,
                                         ![h].releases = @ + Cardinality(rel),
                                         ![h].foreign = @ + Cardinality(hit)]
           /\ hostAssertions' = HostAfter(hostAssertions, ev, Handle(h))
    /\ UNCHANGED <<call, power>>

Construct ==
    \E h \in Handles, pref \in Prefs, flagExists \in BOOLEAN, user \in Users,
       reason \in Reasons, errcode \in ErrCodes, assertID \in Ids :
        CaffeinatorInit(h, pref, flagExists, user, reason, errcode, assertID)

Destroy == \E h \in Handles : CaffeinatorDel(h)

NextCaffeinator == Construct \/ Destroy

SpecCaffeinator == Init /\ [][NextCaffeinator]_vars

(***************************************************************************)
(* The power queries.                                                      *)
(***************************************************************************)
InternalBattery == PyStr("InternalBattery")
SourceTypes == {InternalBattery, PyStr("UPS")}
Capacities == {PyInt(0), PyInt(40), PyInt(90)}
ProvidingTypes == {PyStr("AC Power"), PyStr("Battery Power"), PyStr("UPS Power")}

\* the descriptions IOPSGetPowerSourceDescription returns: a dictionary, any of
\* its keys missing, or NULL
Dicts ==
    {<<>>}
    \cup {("Type" :> ty) : ty \in SourceTypes}
    \cup {("Current Capacity" :> c) : c \in Capacities}
    \cup {("Type" :> ty) @@ ("Current Capacity" :> c) : ty \in SourceTypes, c \in Capacities}
Descriptions == {PyNone} \cup {PyDict(f) : f \in Dicts}
SourceLists == {PyNone} \cup {PyList(s) : s \in UNION {[1..n -> Descriptions] : n \in 0..MaxSources}}

\* what the host reports: without a snapshot there is no list
PowerStates ==
    {p \in [blob : {PyNone, PyStr("ps_blob")},
            providing : {PyNone} \cup ProvidingTypes,
            sources : SourceLists] :
        p.blob = PyNone => p.sources = PyNone}

IOPSCopyPowerSourcesInfo(p) == p.blob
IOPSGetProvidingPowerSourceType(p, ps_blob) == p.providing
IOPSCopyPowerSourcesList(p, ps_blob) == p.sources

\* dict.get(key, default)
DictGet(d, key, default) == IF key \in DOMAIN d.v THEN d.v[key] ELSE default

onACPower(p) ==
    LET power_source == IOPSGetProvidingPowerSourceType(p, IOPSCopyPowerSourcesInfo(p))
    IN  Return(PyBool(PyEq(power_source, PyStr("AC Power"))))

\* a slip: whatever is not AC power is taken as battery power
onBatteryPower_NotAC(p) ==
    LET power_source == IOPSGetProvidingPowerSourceType(p, IOPSCopyPowerSourcesInfo(p))
    IN  Return(PyBool(~PyEq(power_source, PyStr("AC Power"))))

onBatteryPower(p) ==
    LET power_source == IOPSGetProvidingPowerSourceType(p, IOPSCopyPowerSourcesInfo(p))
    IN  Return(PyBool(PyEq(power_source, PyStr("Battery Power"))))

RECURSIVE BatteryLoop_Last(_)
\* a slip: the loop goes on after a match, so the last internal battery wins
BatteryLoop_Last(descriptions) ==
    IF descriptions = <<>> THEN Return(PyInt(0))
    ELSE LET description == Head(descriptions)
             rest == BatteryLoop_Last(Tail(descriptions))
         IN  IF description.t # "dict" THEN Raise("AttributeError")
             ELSE IF PyEq(DictGet(description, "Type", PyNone), InternalBattery)
                     /\ rest = Return(PyInt(0))
             THEN Return(DictGet(description, "Current Capacity", PyInt(0)))
             ELSE rest

RECURSIVE BatteryLoop(_)
\* the loop of getBatteryPercentage over the descriptions, in list order
BatteryLoop(descriptions) ==
    IF descriptions = <<>> THEN Return(PyInt(0))
    ELSE LET description == Head(descriptions)
         IN  IF description.t # "dict" THEN Raise("AttributeError")
             ELSE IF PyEq(DictGet(description, "Type", PyNone), InternalBattery)
             THEN Return(DictGet(description, "Current Capacity", PyInt(0)))
             ELSE BatteryLoop(Tail(descriptions))

getBatteryPercentage(p) ==
    LET power_sources == IOPSCopyPowerSourcesList(p, IOPSCopyPowerSourcesInfo(p))
    IN  IF power_sources.t # "list" THEN Raise("TypeError")
        ELSE BatteryLoop(power_sources.v)

RECURSIVE HasBatteryLoop(_)
\* the loop of hasInternalBattery over the descriptions, in list order
HasBatteryLoop(descriptions) ==
    IF descriptions = <<>> THEN Return(PyBool(FALSE))
    ELSE LET description == Head(descriptions)
         IN  IF description.t # "dict" THEN Raise("AttributeError")
             ELSE IF PyEq(DictGet(description, "Type", PyNone), InternalBattery)
             THEN Return(PyBool(TRUE))
             ELSE HasBatteryLoop(Tail(descriptions))

hasInternalBattery(p) ==
    LET power_sources == IOPSCopyPowerSourcesList(p, IOPSCopyPowerSourcesInfo(p))
    IN  IF power_sources.t # "list" THEN Raise("TypeError")
        ELSE HasBatteryLoop(power_sources.v)

CallOnACPower ==
    /\ call' = [op |-> "onACPower", events |-> <<>>, outcome |-> onACPower(power)]
    /\ UNCHANGED <<hostAssertions, handles, power>>

CallOnBatteryPower ==
    /\ call' = [op |-> "onBatteryPower", events |-> <<>>,
                outcome |-> onBatteryPower(power)]
    /\ UNCHANGED <<hostAssertions, handles, power>>

CallGetBatteryPercentage ==
    /\ call' = [op |-> "getBatteryPercentage", events |-> <<>>,
                outcome |-> getBatteryPercentage(power)]
    /\ UNCHANGED <<hostAssertions, handles, power>>

CallHasInternalBattery ==
    /\ call' = [op |-> "hasInternalBattery", events |-> <<>>,
                outcome |-> hasInternalBattery(power)]
    /\ UNCHANGED <<hostAssertions, handles, power>>

InitPower ==
    /\ hostAssertions = [i \in Ids |-> Free]
    /\ call = NoCall
    /\ handles = NoHandles
    /\ power \in PowerStates

NextPower ==
    \/ CallOnACPower
    \/ CallOnBatteryPower
    \/ CallGetBatteryPercentage
    \/ CallHasInternalBattery

SpecPower == InitPower /\ [][NextPower]_vars

(***************************************************************************)
(* The claims.                                                             *)
(***************************************************************************)
IsAssertCall == call.op = "assertSleepPrevention"
IsRemoveCall == call.op = "removeSleepPreventionAssertion"
Outstanding == {i \in Ids : hostAssertions[i] # Free}

\* C1: when the host's create call returns a non-zero error code,
\* assertSleepPrevention returns None without raising, logs exactly one error
\* entry, and makes no host release call and leaves no assertion behind,
\* whatever the reason and the policy inputs are.
C1_FailedCreateReturnsNone ==
    (IsAssertCall /\ call.errcode # 0) =>
        /\ call.outcome = Return(PyNone)
        /\ Cardinality(Indices(call.events, "IsError")) = 1
        /\ \A i \in Indices(call.events, "IsError") : call.events[i].msg = FailedMsg
        /\ Indices(call.events, "IsRelease") = {}
        /\ Cardinality(Indices(call.events, "IsCreate")) = 1

C1_Witness ==
    /\ IsAssertCall /\ call.errcode = -1
    /\ call.reason = PyStr("Installing updates")
    /\ prevent_display_sleep(call.pref, call.flagExists, call.user)
    /\ Outstanding # {}

\* C2: a successful create with id X makes assertSleepPrevention return X, and
\* removeSleepPreventionAssertion(X) for an id X the host holds makes exactly
\* one host release call, for X, and exactly one informational log entry, for
\* every integer X, 0 included.
C2_ReleaseEveryId ==
    /\ (IsAssertCall /\ call.errcode = 0) =>
           call.outcome = Return(PyInt(call.assertID))
    /\ (IsRemoveCall /\ call.assertion_id.t = "int" /\ call.held) =>
           /\ Cardinality(Indices(call.events, "IsRelease")) = 1
           /\ \A i \in Indices(call.events, "IsRelease") :
                  call.events[i].id = call.assertion_id
           /\ Cardinality(Indices(call.events, "IsInfo")) = 1
           /\ Cardinality(Indices(call.events, "IsLog")) = 1

\* C4: assertSleepPrevention requests NoDisplaySleepAssertion, with the
\* explanatory informational entry logged before the request, exactly when the
\* preference is enabled, the marker file exists and the console user is
\* loginwindow; otherwise it requests NoIdleSleepAssertion and logs no
\* explanatory entry. The request is made once, at level 255.
C4_DisplayIffAllThree ==
    IsAssertCall =>
        LET all3 == /\ call.pref = PyBool(TRUE)
                    /\ call.flagExists
                    /\ call.user = "loginwindow"
            creates == Indices(call.events, "IsCreate")
            explains == Indices(call.events, "IsSuspended")
        IN  /\ Cardinality(creates) = 1
            /\ \A i \in creates :
                   /\ call.events[i].level = 255
                   /\ call.events[i].type =
                          IF all3 THEN "NoDisplaySleepAssertion"
                                  ELSE "NoIdleSleepAssertion"
                   /\ \A j \in explains : j < i
            /\ Cardinality(explains) = IF all3 THEN 1 ELSE 0

C4_Witness ==
    /\ IsAssertCall
    /\ call.pref = PyBool(TRUE) /\ call.flagExists /\ call.user = "loginwindow"
    /\ \E i \in Indices(call.events, "IsCreate") :
           call.events[i].type = "NoDisplaySleepAssertion"

\* C5: removeSleepPreventionAssertion(None) logs nothing, calls the host not at
\* all and leaves every outstanding assertion as it was.
C5_RemoveNoneIsNoOp ==
    [][(call'.op = "removeSleepPreventionAssertion" /\ call'.assertion_id = PyNone)
          => /\ call'.events = <<>>
             /\ call'.outcome = Return(PyNone)
             /\ hostAssertions' = hostAssertions]_vars

C5_Witness ==
    /\ IsRemoveCall /\ call.assertion_id = PyNone
    /\ Cardinality(Outstanding) >= 2

\* C6 as stated: on a successful create exactly one informational entry is
\* logged, before the host create call, whichever kind was chosen.
C6_ExactlyOneInfo ==
    (IsAssertCall /\ call.errcode = 0) =>
        /\ Cardinality(Indices(call.events, "IsInfo")) = 1
        /\ \A i \in Indices(call.events, "IsInfo"), j \in Indices(call.events, "IsCreate") :
               i < j

\* C6 as amended: on a successful create exactly one "Preventing ... sleep"
\* informational entry, naming the kind chosen, is logged, and it and every
\* other informational entry come before the host create call; the
\* informational entries are that one alone for idle sleep and the
\* explanatory entry followed by it for display sleep; no error is logged.
C6_OnePreventingEntryBeforeCreate ==
    (IsAssertCall /\ call.errcode = 0) =>
        LET display == \E j \in Indices(call.events, "IsCreate") :
                           call.events[j].type = "NoDisplaySleepAssertion"
            infos == Indices(call.events, "IsInfo")
            prevs == Indices(call.events, "IsPreventing")
        IN  /\ Cardinality(prevs) = 1
            /\ \A i \in prevs :
                   call.events[i].msg[2] = IF display THEN "display" ELSE "idle"
            /\ \A i \in infos, j \in Indices(call.events, "IsCreate") : i < j
            /\ Cardinality(infos) = IF display THEN 2 ELSE 1
            /\ display => \A i \in prevs, k \in Indices(call.events, "IsSuspended") : k < i
            /\ Indices(call.events, "IsError") = {}
            /\ call.outcome = Return(PyInt(call.assertID))

C6_Witness ==
    /\ IsAssertCall /\ call.errcode = 0
    /\ Cardinality(Indices(call.events, "IsInfo")) = 2
    /\ call.outcome = Return(PyInt(0))
\* C3 as stated: over its lifetime a Caffeinator has exactly one host release
\* call made on its behalf when its create call succeeded and none when it
\* failed, with exactly one error entry for the failed one; nothing is released
\* before __del__ runs, and no Caffeinator releases an assertion another holds.
C3_OneReleasePerCreatedAssertion ==
    \A h \in Handles :
        /\ handles[h].pc = "armed" => handles[h].releases = 0
        /\ handles[h].pc = "released" =>
               handles[h].releases = IF handles[h].created THEN 1 ELSE 0
        /\ handles[h].pc # "unborn" =>
               handles[h].errors = IF handles[h].created THEN 0 ELSE 1
        /\ handles[h].foreign = 0

\* C7 as stated: a Caffeinator holds one id at most, and once its __del__ has
\* released that id it no longer holds it, so that running __del__ again
\* cannot release the same id a second time.
C7_NoStaleIdAfterRelease ==
    \A h \in Handles :
        /\ handles[h].assertion_id.t \in {"None", "int"}
        /\ handles[h].releases >= 1 => handles[h].assertion_id = PyNone
        /\ handles[h].releases <= 1

PowerOps == {"onACPower", "onBatteryPower", "getBatteryPercentage", "hasInternalBattery"}
Default(op) ==
    IF op = "getBatteryPercentage" THEN PyInt(0) ELSE PyBool(FALSE)
\* the host data is missing or malformed for the list queries: no list, or a
\* description that is NULL or lacks Type
Malformed(p) ==
    \/ p.sources.t # "list"
    \/ \A i \in 1..Len(p.sources.v) :
           \/ p.sources.v[i].t # "dict"
           \/ "Type" \notin DOMAIN p.sources.v[i].v

\* C8 as stated: no power query raises, and each returns its default (False
\* or 0) when the host's data is missing: no snapshot, no source list, no
\* description, a description without Type or without Current Capacity.
C8_QueriesNeverRaise ==
    call.op \in PowerOps =>
        /\ ~call.outcome.raised
        /\ (call.op \in {"onACPower", "onBatteryPower"} /\ power.providing = PyNone)
               => call.outcome = Return(Default(call.op))
        /\ (call.op \in {"getBatteryPercentage", "hasInternalBattery"} /\ Malformed(power))
               => call.outcome = Return(Default(call.op))

\* the source list is a list and every description in it is a dictionary
DescriptionsPresent(p) ==
    /\ p.sources.t = "list"
    /\ \A i \in 1..Len(p.sources.v) : p.sources.v[i].t = "dict"
\* the places in the list of the descriptions whose Type is InternalBattery
InternalBatteries(descriptions) ==
    {i \in 1..Len(descriptions) :
        /\ descriptions[i].t = "dict"
        /\ "Type" \in DOMAIN descriptions[i].v
        /\ descriptions[i].v["Type"] = InternalBattery}
First(S) == CHOOSE i \in S : \A j \in S : i <= j

\* C9: on every source list of descriptions getBatteryPercentage returns the
\* Current Capacity of the first description, in list order, whose Type is
\* InternalBattery (0 when it has none), and 0 when there is no such
\* description; hasInternalBattery returns True exactly when there is one; so
\* hasInternalBattery False implies getBatteryPercentage 0.
C9_FirstInternalBattery ==
    DescriptionsPresent(power) =>
        LET ds == power.sources.v
            ib == InternalBatteries(ds)
            expected == IF ib = {} THEN PyInt(0)
                        ELSE IF "Current Capacity" \in DOMAIN ds[First(ib)].v
                        THEN ds[First(ib)].v["Current Capacity"]
                        ELSE PyInt(0)
        IN  /\ call.op = "getBatteryPercentage" => call.outcome = Return(expected)
            /\ call.op = "hasInternalBattery" => call.outcome = Return(PyBool(ib # {}))
            /\ hasInternalBattery(power) = Return(PyBool(FALSE))
                   => getBatteryPercentage(power) = Return(PyInt(0))

C9_Witness ==
    /\ call.op = "getBatteryPercentage"
    /\ DescriptionsPresent(power)
    /\ Len(power.sources.v) = 2
    /\ InternalBatteries(power.sources.v) = {1, 2}
    /\ power.sources.v[1].v = ("Type" :> InternalBattery) @@ ("Current Capacity" :> PyInt(40))
    /\ power.sources.v[2].v = ("Type" :> InternalBattery) @@ ("Current Capacity" :> PyInt(90))
    /\ call.outcome = Return(PyInt(40))

\* C10: onACPower returns True exactly when the providing source type is
\* 'AC Power' and onBatteryPower exactly when it is 'Battery Power'; for one
\* host state they are never both True, any other answer gives False from
\* both, and neither call changes any state.
C10_ProvidingSource ==
    /\ [](/\ call.op = "onACPower" =>
                call.outcome = Return(PyBool(power.providing = PyStr("AC Power")))
          /\ call.op = "onBatteryPower" =>
                call.outcome = Return(PyBool(power.providing = PyStr("Battery Power")))
          /\ ~(/\ onACPower(power) = Return(PyBool(TRUE))
               /\ onBatteryPower(power) = Return(PyBool(TRUE)))
          /\ power.providing \notin {PyStr("AC Power"), PyStr("Battery Power")} =>
                /\ onACPower(power) = Return(PyBool(FALSE))
                /\ onBatteryPower(power) = Return(PyBool(FALSE)))
    /\ [][call'.op \in {"onACPower", "onBatteryPower"} =>
            /\ power' = power
            /\ hostAssertions' = hostAssertions
            /\ handles' = handles]_vars

C10_Witness ==
    /\ call.op = "onBatteryPower"
    /\ power.providing = PyStr("UPS Power")
    /\ call.outcome = Return(PyBool(FALSE))
====
